---------------------------- MODULE Spec2Model ----------------------------
(***************************************************************************)
(* Amazon Search Term Cannibalization Analyzer (src/app.py).               *)
(*                                                                         *)
(* The program is a Streamlit script: it is re-executed from top to bottom *)
(* whenever a widget changes (a file is uploaded or removed, the ROAS      *)
(* slider is moved, the min-orders input is changed).  The state is the    *)
(* widgets' values and the data frames the last execution computed.        *)
(*                                                                         *)
(* Numbers.  Metric cells are whole non-negative numbers.  ROAS is kept in *)
(* hundredths (the code rounds it to 2 decimals): ROAS = 167 is 1.67.      *)
(* The improvement (a quotient of two ROAS values) is compared with the    *)
(* threshold by cross-multiplication, i.e. as the exact rational.          *)
(* Text.  A text cell is the tuple of its code points, so that "Exact" and *)
(* "EXACT" differ and sort as Python strings do; <<>> is an absent cell    *)
(* (NaN after read_csv/read_excel).                                        *)
(***************************************************************************)
EXTENDS Integers, Sequences, FiniteSets, TLC

VARIABLES uploaded_file, roas_threshold, min_orders_cannibal,
          df, acc_sales, acc_spend, df_agg, sales_df, cannibal_list,
          df_final, message

vars == <<uploaded_file, roas_threshold, min_orders_cannibal,
          df, acc_sales, acc_spend, df_agg, sales_df, cannibal_list,
          df_final, message>>

---------------------------------------------------------------------------
(* Program constants: the two sidebar widgets.                             *)
SliderMin == 30
SliderMax == 200
SliderDefault == 100
SliderStep == 10
MinOrdersMin == 1
MinOrdersMax == 10
MinOrdersDefault == 2
\* the "infinite improvement" sentinel of determine_winner
Sentinel == 999
\* df_agg['Spend'].replace(0, 0.01): 1 / 0.01
ZeroSpendFactor == 100

(* Bounds of the model.                                                    *)
MaxSales == 2
MaxSpend == 3
MaxOrders == 2
MaxMinOrders == 2

\* a spend so large that a positive sales/spend rounds to 0.00
LargeSpend == 1000

---------------------------------------------------------------------------
(* Text cells.                                                             *)
NaN == <<>>
Term_a == <<97>>
Term_b == <<98>>
Camp_A == <<65>>
Camp_B == <<66>>
Camp_C == <<67>>
Adg_g == <<103>>
Text_EXACT == <<69, 88, 65, 67, 84>>
Text_Exact == <<69, 120, 97, 99, 116>>
Text_BROAD == <<66, 82, 79, 65, 68>>

Min(a, b) == IF a <= b THEN a ELSE b

\* Python's str.__lt__: lexicographic on code points
StrLess(s, t) ==
    \E i \in 1..(Min(Len(s), Len(t)) + 1) :
        /\ \A j \in 1..(i - 1) : s[j] = t[j]
        /\ \/ i > Len(s) /\ i <= Len(t)
           \/ i <= Len(s) /\ i <= Len(t) /\ s[i] < t[i]

\* tuple comparison of two group keys (same length)
KeyLess(k1, k2) ==
    \E i \in 1..Len(k1) :
        /\ \A j \in 1..(i - 1) : k1[j] = k2[j]
        /\ StrLess(k1[i], k2[i])

RECURSIVE SortKeys(_)
SortKeys(S) ==
    IF S = {} THEN <<>>
    ELSE LET m == CHOOSE x \in S : \A y \in S \ {x} : KeyLess(x, y)
         IN  <<m>> \o SortKeys(S \ {m})

RECURSIVE SortStrs(_)
SortStrs(S) ==
    IF S = {} THEN <<>>
    ELSE LET m == CHOOSE x \in S : \A y \in S \ {x} : StrLess(x, y)
         IN  <<m>> \o SortStrs(S \ {m})

---------------------------------------------------------------------------
(* Numeric cleaning: pd.to_numeric(errors='coerce').fillna(0).  A metric   *)
(* cell is <<n>> when it parses as the number n and <<>> when it is absent *)
(* or unparsable.                                                          *)
to_numeric_fillna(cell) == IF cell = <<>> THEN 0 ELSE cell[1]

NumericCleaning(file) ==
    [i \in 1..Len(file) |->
        [term |-> file[i].term, camp |-> file[i].camp, adg |-> file[i].adg,
         match |-> file[i].match,
         orders |-> to_numeric_fillna(file[i].orders),
         sales |-> to_numeric_fillna(file[i].sales),
         spend |-> to_numeric_fillna(file[i].spend),
         clicks |-> to_numeric_fillna(file[i].clicks)]]

\* Series.sum() of one metric column over the rows whose index is in I
RECURSIVE SumOver(_, _, _)
SumOver(frame, col, I) ==
    IF I = {} THEN 0
    ELSE LET i == CHOOSE x \in I : TRUE
         IN  frame[i][col] + SumOver(frame, col, I \ {i})

ColumnSum(frame, col) == SumOver(frame, col, DOMAIN frame)

---------------------------------------------------------------------------
(* round(2) of a quotient n/d (d > 0), in hundredths when n is scaled by   *)
(* 100: numpy rounds half to even.                                         *)
RoundHalfEven(n, d) ==
    LET q == n \div d
        r == n % d
    IN  IF 2 * r > d \/ (2 * r = d /\ q % 2 = 1) THEN q + 1 ELSE q

\* (Sales / Spend.replace(0, 0.01)).round(2), in hundredths
ROAS(Sales, Spend) ==
    IF Spend = 0 THEN 100 * Sales * ZeroSpendFactor
    ELSE RoundHalfEven(100 * Sales, Spend)

GroupKey(r) == <<r.term, r.camp, r.adg, r.match>>

\* groupby(..., as_index=False).agg(sum), rename, ROAS.  groupby drops the
\* rows with a NaN key (dropna=True) and sorts the groups by key.
Aggregate(frame) ==
    LET kept == {i \in DOMAIN frame :
                    \A j \in 1..4 : GroupKey(frame[i])[j] # NaN}
        keys == SortKeys({GroupKey(frame[i]) : i \in kept})
    IN  [n \in 1..Len(keys) |->
            LET I == {i \in kept : GroupKey(frame[i]) = keys[n]}
                Sales == SumOver(frame, "sales", I)
                Spend == SumOver(frame, "spend", I)
            IN  [idx |-> n - 1,
                 SearchTerm |-> keys[n][1], Campaign |-> keys[n][2],
                 AdGroup |-> keys[n][3], MatchType |-> keys[n][4],
                 Spend |-> Spend, Sales |-> Sales,
                 Orders |-> SumOver(frame, "orders", I),
                 Clicks |-> SumOver(frame, "clicks", I),
                 ROAS |-> ROAS(Sales, Spend)]]

HasOrders(row) == row.Orders > 0

\* df_agg[df_agg['Orders'] > 0]: the rows in order, index labels kept
FilterRows(frame) == SelectSeq(frame, HasOrders)

\* dupe_terms = sales_df.groupby('Search Term').size(); dupe_terms > 1
CannibalList(sdf) ==
    LET terms == {sdf[i].SearchTerm : i \in DOMAIN sdf}
        size(t) == Cardinality({i \in DOMAIN sdf : sdf[i].SearchTerm = t})
    IN  SortStrs({t \in terms : size(t) > 1})

\* sales_df[sales_df['Search Term'] == term].rename(...)
Subset(sdf, term) ==
    LET IsTerm(row) == row.SearchTerm = term
        s == SelectSeq(sdf, IsTerm)
    IN  [i \in 1..Len(s) |->
            [idx |-> s[i].idx, SearchTerm |-> s[i].SearchTerm,
             Campaign |-> s[i].Campaign, AdGroup |-> s[i].AdGroup,
             MatchType |-> s[i].MatchType, spend_val |-> s[i].Spend,
             sales_val |-> s[i].Sales, orders_val |-> s[i].Orders,
             Clicks |-> s[i].Clicks, calculated_roas |-> s[i].ROAS]]

---------------------------------------------------------------------------
(* determine_winner.                                                       *)

\* mutant of idxmax: the last row holding the maximum
idxmax_last(group, col) ==
    LET k == CHOOSE i \in DOMAIN group :
                /\ \A j \in DOMAIN group : group[j][col] <= group[i][col]
                /\ \A j \in DOMAIN group : j > i => group[j][col] < group[i][col]
    IN  group[k].idx

\* Series.idxmax(): the index label of the first row holding the maximum
idxmax(group, col) ==
    LET k == CHOOSE i \in DOMAIN group :
                /\ \A j \in DOMAIN group : group[j][col] <= group[i][col]
                /\ \A j \in 1..(i - 1) : group[j][col] < group[i][col]
    IN  group[k].idx

\* group.loc[label]
loc(group, label) ==
    group[CHOOSE i \in DOMAIN group : group[i].idx = label]

\* mutant of ImprovementAtLeast: the comparison reversed
ImprovementAtMost(roas_challenger, roas_sales, improvement_thresh) ==
    IF roas_sales > 0
    THEN 100 * (roas_challenger - roas_sales) <= improvement_thresh * roas_sales
    ELSE 100 * Sentinel <= improvement_thresh

\* improvement >= improvement_thresh / 100.0, with
\* improvement = (roas_challenger - roas_sales) / roas_sales if roas_sales > 0
\*               else 999
ImprovementAtLeast(roas_challenger, roas_sales, improvement_thresh) ==
    IF roas_sales > 0
    THEN 100 * (roas_challenger - roas_sales) >= improvement_thresh * roas_sales
    ELSE 100 * Sentinel >= improvement_thresh

\* f"{improvement:.0%}": the improvement as a whole percentage
ImprovementPercent(roas_challenger, roas_sales) ==
    IF roas_sales > 0
    THEN RoundHalfEven(100 * (roas_challenger - roas_sales), roas_sales)
    ELSE 100 * Sentinel

BestReason == <<"Best Sales & ROAS">>
VolumeReason == <<"Volume Leader">>
EfficientReason(pct) == <<"Efficient (ROAS +", pct, "%)">>
NoReason == <<>>

\* mutant of determine_winner: the min_orders condition left out
determine_winner_noGate(group, improvement_thresh, min_orders) ==
    LET max_sales_idx == idxmax(group, "sales_val")
        sales_leader == loc(group, max_sales_idx)
        max_roas_idx == idxmax(group, "calculated_roas")
        roas_leader == loc(group, max_roas_idx)
        roas_sales == sales_leader.calculated_roas
        roas_challenger == roas_leader.calculated_roas
    IN  IF max_sales_idx = max_roas_idx
        THEN [idx |-> max_sales_idx, reason |-> BestReason]
        ELSE IF ImprovementAtLeast(roas_challenger, roas_sales,
                                   improvement_thresh)
        THEN [idx |-> max_roas_idx,
              reason |-> EfficientReason(
                            ImprovementPercent(roas_challenger, roas_sales))]
        ELSE [idx |-> max_sales_idx, reason |-> VolumeReason]

determine_winner(group, improvement_thresh, min_orders) ==
    LET max_sales_idx == idxmax(group, "sales_val")
        sales_leader == loc(group, max_sales_idx)
        max_roas_idx == idxmax(group, "calculated_roas")
        roas_leader == loc(group, max_roas_idx)
        roas_sales == sales_leader.calculated_roas
        roas_challenger == roas_leader.calculated_roas
    IN  IF max_sales_idx = max_roas_idx
        THEN [idx |-> max_sales_idx, reason |-> BestReason]
        ELSE IF /\ ImprovementAtLeast(roas_challenger, roas_sales,
                                      improvement_thresh)
                /\ roas_leader.orders_val >= min_orders
        THEN [idx |-> max_roas_idx,
              reason |-> EfficientReason(
                            ImprovementPercent(roas_challenger, roas_sales))]
        ELSE [idx |-> max_sales_idx, reason |-> VolumeReason]

\* mutant of LabelRows: the winner recognised by its ROAS, not its index
LabelRows_byValue(subset, win) ==
    [i \in 1..Len(subset) |->
        LET row == subset[i]
            is_winner ==
                (row.calculated_roas = loc(subset, win.idx).calculated_roas)
        IN  [SearchTerm |-> row.SearchTerm, Campaign |-> row.Campaign,
             AdGroup |-> row.AdGroup, MatchType |-> row.MatchType,
             Orders |-> row.orders_val, Sales |-> row.sales_val,
             Spend |-> row.spend_val, ROAS |-> row.calculated_roas,
             Action |-> IF is_winner THEN "KEEP" ELSE "NEGATE",
             WinningReason |-> IF is_winner THEN win.reason ELSE NoReason]]

\* the inner loop: one output row per row of the subset
LabelRows(subset, win) ==
    [i \in 1..Len(subset) |->
        LET row == subset[i]
            is_winner == (row.idx = win.idx)
        IN  [SearchTerm |-> row.SearchTerm, Campaign |-> row.Campaign,
             AdGroup |-> row.AdGroup, MatchType |-> row.MatchType,
             Orders |-> row.orders_val, Sales |-> row.sales_val,
             Spend |-> row.spend_val, ROAS |-> row.calculated_roas,
             Action |-> IF is_winner THEN "KEEP" ELSE "NEGATE",
             WinningReason |-> IF is_winner THEN win.reason ELSE NoReason]]

\* the outer loop: for term in cannibal_list
RECURSIVE FinalResults(_, _, _, _)
FinalResults(terms, sdf, thresh, min_orders) ==
    IF terms = <<>> THEN <<>>
    ELSE LET subset == Subset(sdf, Head(terms))
             win == determine_winner(subset, thresh, min_orders)
         IN  LabelRows(subset, win)
                 \o FinalResults(Tail(terms), sdf, thresh, min_orders)

---------------------------------------------------------------------------
(* One execution of the script body with the widgets' current values.      *)
NoFile == <<>>

RunScript(file, thresh, min_orders) ==
    IF file = NoFile
    THEN /\ df' = <<>>
         /\ acc_sales' = 0
         /\ acc_spend' = 0
         /\ df_agg' = <<>>
         /\ sales_df' = <<>>
         /\ cannibal_list' = <<>>
         /\ df_final' = <<>>
         /\ message' = ""
    ELSE /\ df' = NumericCleaning(file)
         /\ acc_sales' = ColumnSum(df', "sales")
         /\ acc_spend' = ColumnSum(df', "spend")
         /\ df_agg' = Aggregate(df')
         /\ sales_df' = FilterRows(df_agg')
         /\ cannibal_list' = CannibalList(sales_df')
         /\ df_final' = IF cannibal_list' # <<>>
                        THEN FinalResults(cannibal_list', sales_df',
                                          thresh, min_orders)
                        ELSE <<>>
         /\ message' = IF cannibal_list' # <<>> THEN "report"
                       ELSE "No cannibalization detected."

---------------------------------------------------------------------------
(* The uploaded reports the model draws from.                              *)
Thresholds == {30, 50, 100, 200}
MinOrdersValues == MinOrdersMin..MaxMinOrders

Record(term, camp, match, orders, sales, spend, clicks) ==
    [term |-> term, camp |-> camp, adg |-> Adg_g, match |-> match,
     orders |-> orders, sales |-> sales, spend |-> spend, clicks |-> clicks]

\* one row per campaign for one term: <<sales, spend, orders>>
Metrics ==
    (0..MaxSales) \X {0, 1, MaxSpend, LargeSpend} \X (0..MaxOrders)

MetricRecord(term, camp, m) ==
    Record(term, camp, Text_Exact, <<m[3]>>, <<m[1]>>, <<m[2]>>, <<1>>)

PairFiles ==
    {<<MetricRecord(Term_a, Camp_A, x), MetricRecord(Term_a, Camp_B, y)>> :
        x \in Metrics, y \in Metrics}

SmallMetrics == (0..MaxSales) \X {1, MaxSpend} \X {1, MaxOrders}
EnoughOrders == (0..MaxSales) \X {1, MaxSpend} \X {MaxOrders}

TripleFiles ==
    {<<MetricRecord(Term_a, Camp_B, y), MetricRecord(Term_a, Camp_C, z),
       MetricRecord(Term_a, Camp_A, x)>> :
        x \in SmallMetrics, y \in EnoughOrders, z \in EnoughOrders}

\* two terms, each in two campaigns
TinyMetrics == {1, MaxSales} \X {1} \X {1, MaxOrders}

TwoTermFiles ==
    {<<MetricRecord(Term_b, Camp_A, w), MetricRecord(Term_a, Camp_A, x),
       MetricRecord(Term_b, Camp_B, y), MetricRecord(Term_a, Camp_B, z)>> :
        w \in TinyMetrics, x \in TinyMetrics, y \in TinyMetrics,
        z \in TinyMetrics}

\* records differing in their grouping key, with absent and unparsable cells
Keys ==
    {<<Term_a, Camp_A, Text_EXACT>>, <<Term_a, Camp_A, Text_Exact>>,
     <<Term_a, Camp_A, Text_BROAD>>, <<Term_a, Camp_B, Text_EXACT>>,
     <<Term_a, Camp_A, NaN>>, <<Term_a, NaN, Text_EXACT>>,
     <<Term_b, Camp_A, Text_EXACT>>}

\* <<orders, sales, clicks>> cells; <<>> is an absent or unparsable cell
KeyCells ==
    {<<<<1>>, <<MaxSales>>, <<1>>>>, <<<<>>, <<MaxSales>>, <<1>>>>,
     <<<<1>>, <<>>, <<>>>>, <<<<1>>, <<MaxSales>>, <<>>>>}

KeyRecords ==
    {Record(k[1], k[2], k[3], c[1], c[2], <<1>>, c[3]) :
        k \in Keys, c \in KeyCells}

KeyFiles ==
    {<<r>> : r \in KeyRecords} \cup {<<r, q>> : r \in KeyRecords, q \in KeyRecords}

Files == PairFiles \cup TripleFiles \cup TwoTermFiles \cup KeyFiles

---------------------------------------------------------------------------
(* The widgets.  Every change re-executes the script.                      *)
Init ==
    /\ uploaded_file = NoFile
    /\ roas_threshold = SliderDefault
    /\ min_orders_cannibal = MinOrdersDefault
    /\ df = <<>>
    /\ acc_sales = 0
    /\ acc_spend = 0
    /\ df_agg = <<>>
    /\ sales_df = <<>>
    /\ cannibal_list = <<>>
    /\ df_final = <<>>
    /\ message = ""

\* st.file_uploader: a report is uploaded
Upload(file) ==
    /\ uploaded_file = NoFile
    /\ uploaded_file' = file
    /\ UNCHANGED <<roas_threshold, min_orders_cannibal>>
    /\ RunScript(file, roas_threshold, min_orders_cannibal)

\* st.file_uploader: the report is removed
RemoveFile ==
    /\ uploaded_file # NoFile
    /\ uploaded_file' = NoFile
    /\ UNCHANGED <<roas_threshold, min_orders_cannibal>>
    /\ RunScript(NoFile, roas_threshold, min_orders_cannibal)

\* st.slider("ROAS Improvement Threshold (%)", 30, 200, 100, 10)
MoveSlider(t) ==
    /\ t # roas_threshold
    /\ SliderMin <= t /\ t <= SliderMax /\ (t - SliderMin) % SliderStep = 0
    /\ roas_threshold' = t
    /\ UNCHANGED <<uploaded_file, min_orders_cannibal>>
    /\ RunScript(uploaded_file, t, min_orders_cannibal)

\* st.number_input("Min Orders for Winner", 1, 10, 2)
SetMinOrders(m) ==
    /\ m # min_orders_cannibal
    /\ MinOrdersMin <= m /\ m <= MinOrdersMax
    /\ min_orders_cannibal' = m
    /\ UNCHANGED <<uploaded_file, roas_threshold>>
    /\ RunScript(uploaded_file, roas_threshold, m)

Next ==
    \/ \E file \in Files : Upload(file)
    \/ RemoveFile
    \/ \E t \in Thresholds : MoveSlider(t)
    \/ \E m \in MinOrdersValues : SetMinOrders(m)

Spec == Init /\ [][Next]_vars

---------------------------------------------------------------------------
(* Vocabulary of the properties.                                           *)

Range(seq) == {seq[i] : i \in DOMAIN seq}

\* the terms with two or more aggregated rows with orders > 0
CannibalTerms ==
    {t \in {df_agg[i].SearchTerm : i \in DOMAIN df_agg} :
        Cardinality({i \in DOMAIN df_agg :
                        df_agg[i].SearchTerm = t /\ df_agg[i].Orders > 0}) > 1}

\* the CannibalGroup of a term: its aggregated rows with orders > 0
Group(t) == Subset(sales_df, t)

\* the Decision rows emitted for a term
Decisions(t) == {i \in DOMAIN df_final : df_final[i].SearchTerm = t}
Keeps(t) == {i \in Decisions(t) : df_final[i].Action = "KEEP"}

\* the Decision row i is the one of the group member r
IsDecisionOf(i, r) ==
    /\ df_final[i].SearchTerm = r.SearchTerm
    /\ df_final[i].Campaign = r.Campaign
    /\ df_final[i].AdGroup = r.AdGroup
    /\ df_final[i].MatchType = r.MatchType

IsEfficient(reason) == Len(reason) = 3 /\ reason[1] = "Efficient (ROAS +"

\* the first member holding the maximum of a column
FirstMax(g, col) ==
    CHOOSE i \in DOMAIN g :
        /\ \A j \in DOMAIN g : g[j][col] <= g[i][col]
        /\ \A j \in DOMAIN g : j < i => g[j][col] # g[i][col]

SalesLeader(t) == Group(t)[FirstMax(Group(t), "sales_val")]
RoasLeader(t) == Group(t)[FirstMax(Group(t), "calculated_roas")]

\* the one KEEP row of a term
KeepRow(t) == df_final[CHOOSE i \in Keeps(t) : TRUE]

---------------------------------------------------------------------------
(* C1.  Every term with two or more aggregated rows with orders > 0 gets   *)
(* one Decision row per member of its group; exactly one of them has       *)
(* Action KEEP and every other one has Action NEGATE and an empty reason.  *)
ExactlyOneWinner ==
    \A t \in CannibalTerms :
        /\ Cardinality(Decisions(t)) = Len(Group(t))
        /\ \A k \in DOMAIN Group(t) :
               \E i \in Decisions(t) : IsDecisionOf(i, Group(t)[k])
        /\ Cardinality(Keeps(t)) = 1
        /\ \A i \in Decisions(t) \ Keeps(t) :
               /\ df_final[i].Action = "NEGATE"
               /\ df_final[i].WinningReason = NoReason

\* a group of three whose members tie on ROAS, decided on efficiency away
\* from the default settings
ExactlyOneWinnerWitness ==
    /\ roas_threshold # SliderDefault
    /\ min_orders_cannibal # MinOrdersDefault
    /\ \E t \in CannibalTerms :
           /\ Len(Group(t)) = 3
           /\ IsEfficient(KeepRow(t).WinningReason)
           /\ \E i \in Decisions(t) \ Keeps(t) :
                  df_final[i].ROAS = KeepRow(t).ROAS

(* C5.  Min-orders gate: when the ROAS leader's orders are below           *)
(* min_orders the KEEP row never carries an "Efficient" reason, also when  *)
(* the sales leader's ROAS is 0; when the leaders differ the sales leader  *)
(* is KEEP with "Volume Leader".                                           *)
MinOrdersGate ==
    \A t \in CannibalTerms :
        RoasLeader(t).orders_val < min_orders_cannibal =>
            /\ \A i \in Decisions(t) : ~IsEfficient(df_final[i].WinningReason)
            /\ RoasLeader(t).idx # SalesLeader(t).idx =>
                   \E i \in Keeps(t) :
                       /\ IsDecisionOf(i, SalesLeader(t))
                       /\ df_final[i].WinningReason = VolumeReason

\* the gate stops a ROAS leader whose improvement is the sentinel
MinOrdersGateWitness ==
    \E t \in CannibalTerms :
        /\ RoasLeader(t).orders_val < min_orders_cannibal
        /\ RoasLeader(t).idx # SalesLeader(t).idx
        /\ SalesLeader(t).calculated_roas = 0
        /\ RoasLeader(t).calculated_roas > 0
        /\ roas_threshold = SliderMin
        /\ KeepRow(t).WinningReason = VolumeReason

(* C7.  Trivial agreement: when the first member with the maximum sales is *)
(* also the first member with the maximum ROAS, it is the KEEP row and its *)
(* reason is exactly "Best Sales & ROAS", whatever the settings and its    *)
(* orders.                                                                 *)
TrivialAgreement ==
    \A t \in CannibalTerms :
        SalesLeader(t).idx = RoasLeader(t).idx =>
            /\ Keeps(t) # {}
            /\ \A i \in Keeps(t) :
                   /\ IsDecisionOf(i, SalesLeader(t))
                   /\ df_final[i].WinningReason = BestReason

\* the common leader ties on sales with a later member and has fewer
\* orders than min_orders
TrivialAgreementWitness ==
    \E t \in CannibalTerms :
        /\ SalesLeader(t).idx = RoasLeader(t).idx
        /\ SalesLeader(t).orders_val < min_orders_cannibal
        /\ \E k \in DOMAIN Group(t) :
               /\ Group(t)[k].idx > SalesLeader(t).idx
               /\ Group(t)[k].sales_val = SalesLeader(t).sales_val
        /\ KeepRow(t).WinningReason = BestReason

(* C6.  Threshold monotonicity: when the slider is raised over the same    *)
(* report with the same min_orders, a term decided "Efficient" afterwards  *)
(* was decided "Efficient" before (an outcome only ever changes from       *)
(* "Efficient" to "Volume Leader"), and a "Best Sales & ROAS" outcome and  *)
(* its KEEP row stay as they are.                                          *)
ThresholdRaised ==
    /\ uploaded_file' = uploaded_file
    /\ min_orders_cannibal' = min_orders_cannibal
    /\ roas_threshold' > roas_threshold

MonotoneStep ==
    ThresholdRaised =>
        \A t \in CannibalTerms :
            /\ IsEfficient(KeepRow(t).WinningReason')
                   => IsEfficient(KeepRow(t).WinningReason)
            /\ (KeepRow(t).WinningReason = BestReason)
                   <=> (KeepRow(t).WinningReason' = BestReason)
            /\ KeepRow(t).WinningReason = BestReason
                   => KeepRow(t)' = KeepRow(t)
            /\ ~IsEfficient(KeepRow(t).WinningReason)
                   => KeepRow(t)' = KeepRow(t)

\* C6 as an action property: every step that raises the slider is monotone
ThresholdMonotonicity == [][MonotoneStep]_vars

\* the slider stands above its minimum, where the term is decided "Volume
\* Leader", and the same group is decided "Efficient" at the minimum
ThresholdMonotonicityWitness ==
    /\ roas_threshold > SliderMin
    /\ \E t \in CannibalTerms :
           /\ KeepRow(t).WinningReason = VolumeReason
           /\ RoasLeader(t).orders_val >= min_orders_cannibal
           /\ ImprovementAtLeast(RoasLeader(t).calculated_roas,
                                 SalesLeader(t).calculated_roas, SliderMin)
           /\ SalesLeader(t).idx # RoasLeader(t).idx

---------------------------------------------------------------------------
(* The specification's own notions, which the properties below are stated  *)
(* with.                                                                   *)
Text_PHRASE == <<80, 72, 82, 65, 83, 69>>

Upper(text) ==
    [i \in DOMAIN text |->
        IF 97 <= text[i] /\ text[i] <= 122 THEN text[i] - 32 ELSE text[i]]

Contains(text, sub) ==
    \E k \in 0..(Len(text) - Len(sub)) :
        \A j \in 1..Len(sub) : text[k + j] = sub[j]

\* MatchTypeCategory of the specification's data model
MatchTypeCategory(text) ==
    IF text = NaN THEN "UNKNOWN"
    ELSE IF Contains(Upper(text), Text_EXACT) THEN "EXACT"
    ELSE IF Contains(Upper(text), Text_PHRASE) THEN "PHRASE"
    ELSE IF Contains(Upper(text), Text_BROAD) THEN "BROAD"
    ELSE "AUTO/OTHER"

\* ROAS = sales/spend as a fraction <<numerator, denominator>>, 0 when the
\* spend is 0
ExactROAS(r) ==
    IF r.spend_val = 0 THEN <<0, 1>> ELSE <<r.sales_val, r.spend_val>>

FracLess(a, b) == a[1] * b[2] < b[1] * a[2]

\* the first member with the maximum sales/spend
ExactRoasLeader(t) ==
    LET g == Group(t)
        k == CHOOSE i \in DOMAIN g :
                /\ \A j \in DOMAIN g : ~FracLess(ExactROAS(g[i]), ExactROAS(g[j]))
                /\ \A j \in DOMAIN g :
                       j < i => FracLess(ExactROAS(g[j]), ExactROAS(g[i]))
    IN  g[k]

\* (c - s) / s >= thresh / 100 for the fractions c and s, s > 0
ExactImprovementAtLeast(c, s, thresh) ==
    100 * (c[1] * s[2] - s[1] * c[2]) >= thresh * s[1] * c[2]

(* C2.  Conservation: the sum of sales, of spend, of orders and of clicks  *)
(* over the aggregated rows equals the sum over the normalized input rows. *)
Conservation ==
    /\ ColumnSum(df_agg, "Sales") = ColumnSum(df, "sales")
    /\ ColumnSum(df_agg, "Spend") = ColumnSum(df, "spend")
    /\ ColumnSum(df_agg, "Orders") = ColumnSum(df, "orders")
    /\ ColumnSum(df_agg, "Clicks") = ColumnSum(df, "clicks")

(* C3.  Zero-spend safety: an aggregated row whose summed spend is 0 has   *)
(* ROAS 0, and so has its Decision row.                                    *)
ZeroSpendSafety ==
    /\ \A i \in DOMAIN df_agg : df_agg[i].Spend = 0 => df_agg[i].ROAS = 0
    /\ \A i \in DOMAIN df_final : df_final[i].Spend = 0 => df_final[i].ROAS = 0

(* C4.  Decision rule when the leaders differ, with ROAS = sales/spend:    *)
(* the ROAS leader is KEEP with an "Efficient" reason exactly when its     *)
(* improvement over the sales leader's ROAS (> 0) reaches the threshold    *)
(* and its orders reach min_orders; otherwise the sales leader is KEEP     *)
(* with "Volume Leader".  Stated for the groups whose spends are all       *)
(* positive.                                                               *)
DecisionRule ==
    \A t \in CannibalTerms :
        LET sl == SalesLeader(t)
            rl == ExactRoasLeader(t)
            efficient ==
                /\ ExactImprovementAtLeast(ExactROAS(rl), ExactROAS(sl),
                                           roas_threshold)
                /\ rl.orders_val >= min_orders_cannibal
        IN  (/\ \A k \in DOMAIN Group(t) : Group(t)[k].spend_val > 0
             /\ sl.idx # rl.idx
             /\ sl.sales_val > 0)
            => \E i \in Keeps(t) :
                   IF efficient
                   THEN /\ IsDecisionOf(i, rl)
                        /\ IsEfficient(df_final[i].WinningReason)
                   ELSE /\ IsDecisionOf(i, sl)
                        /\ df_final[i].WinningReason = VolumeReason

(* C8.  Duplication detection: a term receives Decision rows exactly when  *)
(* its aggregated rows with orders > 0 span more than one (campaign, ad    *)
(* group); rows with orders = 0 never appear in the output.                *)
DuplicationDetection ==
    /\ \A t \in {df_agg[i].SearchTerm : i \in DOMAIN df_agg} :
           Decisions(t) # {}
               <=> Cardinality({<<df_agg[i].Campaign, df_agg[i].AdGroup>> :
                       i \in {j \in DOMAIN df_agg :
                                 /\ df_agg[j].SearchTerm = t
                                 /\ df_agg[j].Orders > 0}}) > 1
    /\ \A i \in DOMAIN df_final : df_final[i].Orders > 0

(* C9.  Match-type classification in the aggregation key: there is at most *)
(* one aggregated row per (term, campaign, ad group, match-type category), *)
(* and the records of a key with an absent match type are aggregated under *)
(* UNKNOWN.                                                                *)
MatchTypeAggregation ==
    /\ \A i, j \in DOMAIN df_agg :
           (/\ df_agg[i].SearchTerm = df_agg[j].SearchTerm
            /\ df_agg[i].Campaign = df_agg[j].Campaign
            /\ df_agg[i].AdGroup = df_agg[j].AdGroup
            /\ MatchTypeCategory(df_agg[i].MatchType)
                   = MatchTypeCategory(df_agg[j].MatchType))
           => i = j
    /\ \A r \in Range(df) :
           (r.term # NaN /\ r.camp # NaN /\ r.adg # NaN) =>
               \E i \in DOMAIN df_agg :
                   /\ df_agg[i].SearchTerm = r.term
                   /\ df_agg[i].Campaign = r.camp
                   /\ df_agg[i].AdGroup = r.adg
                   /\ MatchTypeCategory(df_agg[i].MatchType)
                          = MatchTypeCategory(r.match)

(* C10.  Non-domination of the winner: the KEEP row is the group's sales   *)
(* leader or its ROAS leader, no NEGATE row has both strictly greater      *)
(* sales and strictly greater ROAS, and a KEEP row with an "Efficient"     *)
(* reason has a ROAS strictly greater than the sales leader's.             *)
NonDomination ==
    \A t \in CannibalTerms :
        \A i \in Keeps(t) :
            /\ IsDecisionOf(i, SalesLeader(t)) \/ IsDecisionOf(i, RoasLeader(t))
            /\ \A j \in Decisions(t) \ Keeps(t) :
                   ~(/\ df_final[j].Sales > df_final[i].Sales
                     /\ df_final[j].ROAS > df_final[i].ROAS)
            /\ IsEfficient(df_final[i].WinningReason)
                   => df_final[i].ROAS > SalesLeader(t).calculated_roas

===========================================================================
